---- MODULE Spec2Model ----
(***************************************************************************)
(* Model of the memory allocator of mem.c: one mmap'ed Region carved into  *)
(* blocks, each led by a block_header {next, size_status}; Mem_Init,       *)
(* Mem_Alloc (first fit with splitting), Mem_Free (coalescing) and         *)
(* Mem_Dump.  Memory is modelled as the headers it holds: every header     *)
(* the code writes lies at RegionBase + k * sizeof(block_header), because  *)
(* Mem_Alloc derives a new header's address by block_header* arithmetic.   *)
(***************************************************************************)
EXTENDS Integers, Sequences, FiniteSets, TLC

\* ------------------------------------------------------------- bounds
\* the number of addresses Mem_Alloc hands out in a run
MaxAllocs == 6
\* the same, in the runs of one Region size that go deeper
DeepAllocs == 9
\* the same, in the runs of a four-page Region with two request sizes
TripAllocs == 9
\* the same, in the runs with request sizes near INT_MAX
BigAllocs == 4

\* ------------------------------------------------- platform constants
\* getpagesize(), scaled down from 4096
PageSize == 64
\* sizeof(block_header) on an LP64 build: an 8-byte pointer, a 4-byte int,
\* 4 bytes of padding (an ILP32 build has 8, and the same arithmetic)
HeaderSize == 16
\* the null pointer
NULL == 0
\* the address mmap returns (page aligned, not null)
RegionBase == 4 * PageSize

\* outcomes of a call that does not return
HANG == -100
FAULT == -200

\* ------------------------------------------------------------- inputs
InitSizes == {-1, 0, 1, PageSize, PageSize + 1}
AllocSizes == {-5, 0, 1, 10, 32}
\* a larger Region with fewer request sizes
WideInitSizes == {-1, 0, 1, PageSize, 2 * PageSize + 1}
WideAllocSizes == {-5, 0, 10, 32}
\* one Region size, for deeper runs
DeepInitSizes == {0, PageSize + 1}
DeepAllocSizes == {0, 1, 10, 32}
\* a four-page Region, one small and one large request size
TripInitSizes == {3 * PageSize + 1}
TripAllocSizes == {10, 80}

\* ---------------------------------------------------------- C arithmetic
\* a 32-bit signed int: + and - wrap modulo 2^32 on overflow
INT_MAX == 2147483647
INT_MIN == -INT_MAX - 1

\* request sizes near INT_MAX: the largest whose rounding and header addition
\* stay in range, the largest multiple of 4, and INT_MAX
BigInitSizes == {1, PageSize + 1}
BigAllocSizes == {10, INT_MAX - 19, INT_MAX - 3, INT_MAX}

AddInt(a, b) ==
  IF b > 0 /\ a > INT_MAX - b THEN (a - INT_MAX - 1) + (b - INT_MAX - 1)
  ELSE IF b < 0 /\ a < INT_MIN - b THEN (a + INT_MAX + 1) + (b + INT_MAX + 1)
  ELSE a + b
SubInt(a, b) ==
  IF b < 0 /\ a > INT_MAX + b THEN (a - INT_MAX - 1) - (b + INT_MAX + 1)
  ELSE IF b > 0 /\ a < INT_MIN + b THEN (a + INT_MAX + 1) - (b - INT_MAX - 1)
  ELSE a - b
\* C's % and / truncate toward zero (b > 0)
CRem(a, b) == IF a >= 0 THEN a % b ELSE -((-a) % b)
CDiv(a, b) == IF a >= 0 THEN a \div b ELSE -((-a) \div b)

VARIABLES
  list_head,      \* the global list_head
  allocated_once, \* the static flag of Mem_Init
  mem,            \* the Region: address of a header slot -> block_header
  alloc_size,     \* size of the mapped Region (0 before a successful Mem_Init)
  pc,             \* "ready", or "hang"/"fault" once a call did not return
  returned,       \* history: every address Mem_Alloc has returned
  live,           \* history: addresses returned and not yet freed with success
  last,           \* history: the last call that returned a value or did not
                  \* return (Mem_Dump returns none), what it returned, and
                  \* its argument when it succeeded (0 otherwise)
  init_called,    \* history: Mem_Init has been called
  nalloc,         \* history: number of addresses Mem_Alloc has returned
  before          \* history: the list as it was before the last call, when
                  \* that call was a Mem_Alloc that returned an address
                  \* (<<>> otherwise)

vars == <<list_head, allocated_once, mem, alloc_size, pc, returned, live, last,
          init_called, nalloc, before>>

\* a zeroed header slot of the fresh mapping
ZeroHeader == [next |-> NULL, size_status |-> 0]

\* the header slots of a Region of n bytes
Slots(n) == {RegionBase + HeaderSize * k : k \in 0 .. (n \div HeaderSize) - 1}

Init ==
  /\ list_head = NULL
  /\ allocated_once = 0
  /\ mem = [a \in {} |-> ZeroHeader]
  /\ alloc_size = 0
  /\ pc = "ready"
  /\ returned = {}
  /\ live = {}
  /\ last = [op |-> "none", arg |-> 0, ret |-> 0]
  /\ init_called = FALSE
  /\ nalloc = 0
  /\ before = <<>>

\* ------------------------------------------------------ the block list
\* the blocks met following next links from p, each once
RECURSIVE Walk(_, _)
Walk(p, seen) ==
  IF p = NULL \/ p \in seen \/ p \notin DOMAIN mem THEN <<>>
  ELSE <<p>> \o Walk(mem[p].next, seen \cup {p})

\* the block list as Mem_Dump lists it
BlockList == Walk(list_head, {})

\* the payload size a header records: size_status without the flag bit
Payload(h) == h.size_status - CRem(h.size_status, 2)

\* the same walk in the state after a step
RECURSIVE WalkNext(_, _)
WalkNext(p, seen) ==
  IF p = NULL \/ p \in seen \/ p \notin DOMAIN mem' THEN <<>>
  ELSE <<p>> \o WalkNext(mem'[p].next, seen \cup {p})
BlockListNext == WalkNext(list_head', {})

\* the list as Mem_Dump prints it: each block's address and header, in order
Snapshot == [i \in 1 .. Len(BlockList) |-> <<BlockList[i], mem[BlockList[i]]>>]
SnapshotNext ==
  [i \in 1 .. Len(BlockListNext) |-> <<BlockListNext[i], mem'[BlockListNext[i]]>>]

\* ------------------------------------------------------------ Mem_Init
\* (mutant) the padding computed without the second % pagesize
RoundToPage_PadsFullPage(sizeOfRegion) ==
  AddInt(sizeOfRegion, PageSize - CRem(sizeOfRegion, PageSize))

\* the Region size Mem_Init maps for a request
RoundToPage(sizeOfRegion) ==
  LET padsize == (PageSize - CRem(sizeOfRegion, PageSize)) % PageSize
  IN  AddInt(sizeOfRegion, padsize)

\* (mutant) the test of allocated_once left out
InitRefused_SizeOnly(sizeOfRegion) == sizeOfRegion <= 0

\* the two tests that make Mem_Init return -1 before it maps anything
InitRefused(sizeOfRegion) == allocated_once # 0 \/ sizeOfRegion <= 0

Mem_Init(sizeOfRegion, osOk) ==
  /\ pc = "ready"
  /\ init_called' = TRUE
  /\ before' = <<>>
  /\ UNCHANGED <<nalloc, pc, returned, live>>
  /\ IF InitRefused(sizeOfRegion)
     THEN /\ last' = [op |-> "init", arg |-> 0, ret |-> -1]
          /\ UNCHANGED <<list_head, allocated_once, mem, alloc_size>>
     ELSE IF ~osOk
     THEN /\ allocated_once' = 0
          /\ last' = [op |-> "init", arg |-> 0, ret |-> -1]
          /\ UNCHANGED <<list_head, mem, alloc_size>>
     ELSE /\ allocated_once' = 1
          /\ alloc_size' = RoundToPage(sizeOfRegion)
          /\ list_head' = RegionBase
          /\ mem' = [a \in Slots(RoundToPage(sizeOfRegion)) |->
                       IF a = RegionBase
                       THEN [next |-> NULL,
                             size_status |-> SubInt(RoundToPage(sizeOfRegion), HeaderSize)]
                       ELSE ZeroHeader]
          /\ last' = [op |-> "init", arg |-> sizeOfRegion, ret |-> 0]

\* ----------------------------------------------------------- Mem_Alloc
\* the request rounded up to a multiple of 4
sizeBy4(size) ==
  IF CRem(size, 4) > 0 THEN AddInt(size, 4 - CRem(size, 4)) ELSE size

\* the rounded request plus the size of a header
sizeWithHead(size) == AddInt(sizeBy4(size), HeaderSize)

\* LSB of size_status clear
IsFree(h) == CRem(h.size_status, 2) = 0

\* the size test Mem_Alloc applies to a block
Fits(h, need) == IsFree(h) /\ h.size_status >= need

\* The two loops of Mem_Alloc: the block it selects, NULL when none fits,
\* HANG when the walk comes back to a block it has visited (the loop never
\* ends, the list being unchanged by the walk), FAULT when it dereferences
\* an address outside the Region (list_head = NULL before Mem_Init).
RECURSIVE FirstFit(_, _, _)
FirstFit(ptr, need, seen) ==
  IF ptr \notin DOMAIN mem THEN FAULT
  ELSE IF ptr \in seen THEN HANG
  ELSE IF mem[ptr].next # NULL
       THEN IF Fits(mem[ptr], need) THEN ptr
            ELSE FirstFit(mem[ptr].next, need, seen \cup {ptr})
       ELSE IF Fits(mem[ptr], need) THEN ptr ELSE NULL

\* whether the selected block is split
CanSplit(h, need) == SubInt(h.size_status, need) >= HeaderSize + 4

\* the address of the header of the block split off: block_header* arithmetic
NewBlockAddr(ptr, need) == ptr + HeaderSize * CDiv(need, HeaderSize)

\* the stores of the split branch, in program order
SplitStores(m, ptr, size) ==
  LET need     == sizeWithHead(size)
      newBlock == NewBlockAddr(ptr, need)
      m1 == [m  EXCEPT ![newBlock].next = m[ptr].next]
      m2 == [m1 EXCEPT ![ptr].next = newBlock]
      m3 == [m2 EXCEPT ![newBlock].size_status = SubInt(m2[ptr].size_status, need)]
      m4 == [m3 EXCEPT ![ptr].size_status = sizeBy4(size)]
  IN  [m4 EXCEPT ![ptr].size_status = AddInt(@, 1)]

\* the stores of the no-split branch
WholeStores(m, ptr) == [m EXCEPT ![ptr].size_status = AddInt(@, 1)]

Mem_Alloc(size) ==
  /\ pc = "ready"
  /\ UNCHANGED <<list_head, allocated_once, alloc_size, init_called>>
  /\ IF size <= 0
     THEN /\ last' = [op |-> "alloc", arg |-> 0, ret |-> NULL]
          /\ before' = <<>>
          /\ UNCHANGED <<mem, pc, returned, live, nalloc>>
     ELSE LET need == sizeWithHead(size)
              ptr  == FirstFit(list_head, need, {})
          IN  IF ptr \in {HANG, FAULT}
              THEN /\ pc' = IF ptr = HANG THEN "hang" ELSE "fault"
                   /\ last' = [op |-> "alloc", arg |-> 0, ret |-> ptr]
                   /\ before' = <<>>
                   /\ UNCHANGED <<mem, returned, live, nalloc>>
              ELSE IF ptr = NULL
              THEN /\ last' = [op |-> "alloc", arg |-> 0, ret |-> NULL]
                   /\ before' = <<>>
                   /\ UNCHANGED <<mem, pc, returned, live, nalloc>>
              ELSE IF CanSplit(mem[ptr], need)
                      /\ NewBlockAddr(ptr, need) \notin DOMAIN mem
              THEN /\ pc' = "fault"
                   /\ last' = [op |-> "alloc", arg |-> 0, ret |-> FAULT]
                   /\ before' = <<>>
                   /\ UNCHANGED <<mem, returned, live, nalloc>>
              ELSE /\ mem' = IF CanSplit(mem[ptr], need)
                             THEN SplitStores(mem, ptr, size)
                             ELSE WholeStores(mem, ptr)
                   /\ last' = [op |-> "alloc", arg |-> size, ret |-> ptr + HeaderSize]
                   /\ returned' = returned \cup {ptr + HeaderSize}
                   /\ live' = live \cup {ptr + HeaderSize}
                   /\ nalloc' = nalloc + 1
                   /\ before' = Snapshot
                   /\ UNCHANGED pc

\* ------------------------------------------------------------ Mem_Free
\* LSB of size_status set: the test Mem_Free applies to the header
IsBusy(h) == CRem(h.size_status, 2) = 1

\* clear the flag of the block freed
ClearFlag(m, newPtr) == [m EXCEPT ![newPtr].size_status = AddInt(@, -1)]

\* whether the block after b is absorbed into b
AbsorbsNext(m, b) == m[b].next # NULL /\ IsFree(m[m[b].next])

\* absorb the block after b into b: size first, then the link
AbsorbNext(m, b) ==
  LET n  == m[b].next
      m1 == [m EXCEPT ![b].size_status =
                        AddInt(m[b].size_status, AddInt(m[n].size_status, HeaderSize))]
  IN  [m1 EXCEPT ![b].next = m1[n].next]

\* forward coalescing of the block freed
ForwardStores(m, newPtr) ==
  IF AbsorbsNext(m, newPtr) THEN AbsorbNext(m, newPtr) ELSE m

\* The walk from list_head that looks for the block before newPtr: the value
\* of prev when the loop ends (at newPtr, or at the end of the list), HANG
\* when the walk comes back to a block it has visited.
RECURSIVE FindPrev(_, _, _, _, _)
FindPrev(m, newPtr, temp, prev, seen) ==
  IF temp = NULL \/ temp = newPtr THEN prev
  ELSE IF temp \in seen THEN HANG
  ELSE IF temp \notin DOMAIN m THEN FAULT
  ELSE FindPrev(m, newPtr, m[temp].next, temp, seen \cup {temp})

Mem_Free(ptr) ==
  /\ pc = "ready"
  /\ UNCHANGED <<nalloc, list_head, allocated_once, alloc_size, returned, init_called>>
  /\ before' = <<>>
  /\ IF ptr = NULL
     THEN /\ last' = [op |-> "free", arg |-> 0, ret |-> -1]
          /\ UNCHANGED <<mem, pc, live>>
     ELSE LET newPtr == ptr - HeaderSize IN
       IF newPtr \notin DOMAIN mem
       THEN /\ pc' = "fault"
            /\ last' = [op |-> "free", arg |-> 0, ret |-> FAULT]
            /\ UNCHANGED <<mem, live>>
       ELSE IF ~IsBusy(mem[newPtr])
       THEN /\ last' = [op |-> "free", arg |-> 0, ret |-> -1]
            /\ UNCHANGED <<mem, pc, live>>
       ELSE LET m1 == ClearFlag(mem, newPtr) IN
         IF m1[newPtr].next # NULL /\ m1[newPtr].next \notin DOMAIN mem
         THEN /\ pc' = "fault"
              /\ mem' = m1
              /\ last' = [op |-> "free", arg |-> 0, ret |-> FAULT]
              /\ UNCHANGED live
         ELSE LET m2 == ForwardStores(m1, newPtr) IN
           IF newPtr = list_head
           THEN /\ mem' = m2
                /\ last' = [op |-> "free", arg |-> ptr, ret |-> 0]
                /\ live' = live \ {ptr}
                /\ UNCHANGED pc
           ELSE LET prev == FindPrev(m2, newPtr, list_head, NULL, {}) IN
             IF prev \in {HANG, FAULT}
             THEN /\ pc' = IF prev = HANG THEN "hang" ELSE "fault"
                  /\ mem' = m2
                  /\ last' = [op |-> "free", arg |-> 0, ret |-> prev]
                  /\ UNCHANGED live
             ELSE IF prev # NULL /\ IsFree(m2[prev])
                     /\ m2[prev].next \notin DOMAIN m2
             THEN /\ pc' = "fault"
                  /\ mem' = m2
                  /\ last' = [op |-> "free", arg |-> 0, ret |-> FAULT]
                  /\ UNCHANGED live
             ELSE /\ mem' = IF prev # NULL /\ IsFree(m2[prev])
                            THEN AbsorbNext(m2, prev) ELSE m2
                  /\ last' = [op |-> "free", arg |-> ptr, ret |-> 0]
                  /\ live' = live \ {ptr}
                  /\ UNCHANGED pc

\* ------------------------------------------------------------ Mem_Dump
\* The walk of Mem_Dump: <<busy_size, free_size>> accumulated from current
\* on, <<HANG, HANG>> when the walk comes back to a block it has visited.
RECURSIVE DumpTotals(_, _, _, _)
DumpTotals(current, busy_size, free_size, seen) ==
  IF current = NULL THEN <<busy_size, free_size>>
  ELSE IF current \in seen THEN <<HANG, HANG>>
  ELSE IF IsBusy(mem[current])
       THEN DumpTotals(mem[current].next,
                       busy_size + (mem[current].size_status - 1) + HeaderSize,
                       free_size, seen \cup {current})
       ELSE DumpTotals(mem[current].next, busy_size,
                       free_size + mem[current].size_status + HeaderSize,
                       seen \cup {current})

\* (mutant) Size = Size - 1 stored back into the header of the head block
Mem_Dump_WritesBack ==
  /\ pc = "ready"
  /\ UNCHANGED <<nalloc, list_head, allocated_once, alloc_size, returned, live,
                 init_called, pc, last, before>>
  /\ mem' = IF list_head # NULL /\ IsBusy(mem[list_head])
            THEN ClearFlag(mem, list_head) ELSE mem

Mem_Dump ==
  /\ pc = "ready"
  /\ UNCHANGED <<nalloc, list_head, allocated_once, mem, alloc_size, returned, live,
                 init_called, before>>
  /\ LET t == DumpTotals(list_head, 0, 0, {}) IN
       IF t[1] = HANG
       THEN /\ pc' = "hang"
            /\ last' = [op |-> "dump", arg |-> 0, ret |-> HANG]
       ELSE UNCHANGED <<pc, last>>

\* a successful Mem_Init has happened and every call so far has returned
Running == list_head # NULL /\ pc = "ready"

\* the free blocks of the list that pass the size test for a request of n
Candidates(n) ==
  {b \in {BlockList[i] : i \in 1 .. Len(BlockList)} :
     IsFree(mem[b]) /\ Payload(mem[b]) >= sizeBy4(n) + HeaderSize}

\* the least of a non-empty set of addresses
Lowest(S) == CHOOSE a \in S : \A b \in S : a <= b

\* ------------------------------------------------------------- claims

\* C1: after a successful Mem_Init the blocks tile the Region: the head is at
\* the Region base, every block's successor starts where the block's payload
\* ends, and the last block ends at the Region end.
C1_Tiling ==
  Running =>
    /\ Len(BlockList) >= 1
    /\ BlockList[1] = RegionBase
    /\ \A i \in 1 .. Len(BlockList) :
         LET b == BlockList[i]
             e == b + HeaderSize + Payload(mem[b])
         IN  IF i < Len(BlockList)
             THEN mem[b].next = BlockList[i + 1] /\ BlockList[i + 1] = e
             ELSE mem[b].next = NULL /\ e = RegionBase + alloc_size

\* the blocks of the list, as a set
BlockSet == {BlockList[i] : i \in 1 .. Len(BlockList)}

\* the sum of payload size + header size over a sequence of blocks
RECURSIVE TotalSize(_)
TotalSize(blocks) ==
  IF blocks = <<>> THEN 0
  ELSE Payload(mem[Head(blocks)]) + HeaderSize + TotalSize(Tail(blocks))

\* every request size and Region size the specifications draw
Requests == AllocSizes \cup WideAllocSizes \cup DeepAllocSizes \cup TripAllocSizes
RegionRequests == InitSizes \cup WideInitSizes \cup DeepInitSizes \cup TripInitSizes

\* a step leaves the block list as it is
ListUnchanged == mem' = mem /\ list_head' = list_head /\ alloc_size' = alloc_size

\* C2: after a successful Mem_Init the payload and header sizes of the blocks
\* of the list add up to the Region size.
C2_Coverage == Running => TotalSize(BlockList) = alloc_size

\* C3: after a successful Mem_Init no block of the list and the block its next
\* link leads to (another block) are both free.
C3_NoAdjacentFree ==
  Running =>
    \A b \in BlockSet :
      ~(/\ IsFree(mem[b])
        /\ mem[b].next \in DOMAIN mem
        /\ mem[b].next # b
        /\ IsFree(mem[mem[b].next]))

\* C4: Mem_Alloc(n), n > 0, returns the payload start of the lowest-addressed
\* free block of the list whose payload is at least n rounded to 4 plus the
\* header size, whenever there is one, and never the payload of another block.
C4_FirstFit ==
  [][\A n \in Requests :
       (Running /\ n > 0 /\ Mem_Alloc(n)) =>
         /\ Candidates(n) # {} =>
              pc' = "ready" /\ last'.ret = Lowest(Candidates(n)) + HeaderSize
         /\ (pc' = "ready" /\ last'.ret # NULL) =>
              last'.ret - HeaderSize \in Candidates(n)]_vars

\* C5: Mem_Alloc(n) returns NULL and leaves the list and the Region unchanged
\* when n <= 0 and when no free block of the list passes the size test.
C5_AllocNone ==
  [][\A n \in Requests :
       (Mem_Alloc(n) /\ (n <= 0 \/ (Running /\ Candidates(n) = {}))) =>
         pc' = "ready" /\ last'.ret = NULL /\ ListUnchanged]_vars

\* C6: Mem_Free of NULL or of an address Mem_Alloc returned succeeds exactly
\* when the address is the payload start of a block that is in the list and
\* busy; a failing call, and a call on an address freed and not handed out
\* again since, return -1 and leave the list unchanged.
C6_FreeValidates ==
  [][\A p \in {NULL} \cup returned :
       Mem_Free(p) =>
         LET ok == p # NULL /\ (p - HeaderSize) \in BlockSet
                            /\ IsBusy(mem[p - HeaderSize])
         IN  /\ pc' = "ready"
             /\ last'.ret = 0 <=> ok
             /\ ~ok => last'.ret = -1 /\ ListUnchanged
             /\ (p = NULL \/ p \in returned \ live) =>
                  last'.ret = -1 /\ ListUnchanged]_vars

\* C7: Mem_Free of the address the call of Mem_Alloc just before returned
\* succeeds, and leaves a free block of the list that holds the freed
\* block's header address and has a payload of at least the rounded request.
C7_RoundTrip ==
  [][(Running /\ last.op = "alloc" /\ last.ret # NULL /\ Mem_Free(last.ret)) =>
       /\ pc' = "ready"
       /\ last'.ret = 0
       /\ \E b \in {BlockListNext[i] : i \in 1 .. Len(BlockListNext)} :
            /\ IsFree(mem'[b])
            /\ Payload(mem'[b]) >= sizeBy4(last.arg)
            /\ b <= last.ret - HeaderSize
            /\ last.ret - HeaderSize < b + HeaderSize + Payload(mem'[b])]_vars

\* C8, as claimed: Mem_Init fails whenever Mem_Init has been called before,
\* and a failing Mem_Init leaves the list unchanged.
C8_FailsAfterAnyCall ==
  [][\A s \in RegionRequests, ok \in BOOLEAN :
       Mem_Init(s, ok) =>
         /\ init_called => last'.ret = -1
         /\ last'.ret = -1 => ListUnchanged]_vars

\* C8, amended: Mem_Init fails whenever an earlier Mem_Init has succeeded,
\* whatever the arguments, and a failing Mem_Init leaves the list unchanged.
C8_FailsAfterSuccess ==
  [][\A s \in RegionRequests, ok \in BOOLEAN :
       Mem_Init(s, ok) =>
         /\ list_head # NULL => last'.ret = -1
         /\ last'.ret = -1 => ListUnchanged]_vars

\* C8 witness: a call of Mem_Init has failed after an earlier one succeeded
C8_Witness == last.op = "init" /\ last.ret = -1 /\ list_head # NULL /\ pc = "ready"

\* C9: a successful Mem_Init(s) maps the least multiple of the page size that
\* is at least s and installs one free block with no successor, whose payload
\* is the Region size less the header size.
C9_InitInstalls ==
  (last.op = "init" /\ last.ret = 0) =>
    /\ last.arg > 0
    /\ alloc_size % PageSize = 0
    /\ alloc_size >= last.arg
    /\ alloc_size - last.arg < PageSize
    /\ list_head = RegionBase
    /\ BlockList = <<RegionBase>>
    /\ mem[RegionBase] = [next |-> NULL, size_status |-> alloc_size - HeaderSize]

\* C9 witness: Mem_Init has succeeded on a size that is not a multiple of the
\* page size
C9_Witness ==
  last.op = "init" /\ last.ret = 0 /\ last.arg = PageSize + 1
                   /\ alloc_size = 2 * PageSize

\* C10: when every address Mem_Alloc returned has been freed the list is one
\* free block whose payload is the Region size less the header size.
C10_AllFreed ==
  (Running /\ returned # {} /\ live = {}) =>
    /\ BlockList = <<RegionBase>>
    /\ mem[RegionBase] = [next |-> NULL, size_status |-> alloc_size - HeaderSize]

\* what is missing from n to the next multiple of 4
Pad4(n) == (4 - (n % 4)) % 4

\* C11: Mem_Alloc(n), 1 <= n <= INT_MAX, with int arithmetic that wraps,
\* returns NULL or the payload start of a block whose payload is at least n
\* rounded up to a multiple of 4, and returns NULL whenever n plus the header
\* size exceeds the Region size.
C11_AllocPayload ==
  [][\A n \in BigAllocSizes :
       (Running /\ n >= 1 /\ Mem_Alloc(n) /\ pc' = "ready") =>
         /\ last'.ret # NULL =>
              Payload(mem'[last'.ret - HeaderSize]) - n >= Pad4(n)
         /\ n > alloc_size - HeaderSize => last'.ret = NULL]_vars

\* C12: Mem_Dump leaves list_head and every header of the Region (next link,
\* payload size, flag) as they are, whether it returns or not.
C12_DumpFrame == [][Mem_Dump => (list_head' = list_head /\ mem' = mem)]_vars

\* C12 witness: Mem_Dump has been called on a list that holds busy blocks (the
\* call is recorded when it does not return)
C12_Witness ==
  /\ last.op = "dump"
  /\ \E b \in BlockSet : IsBusy(mem[b])

\* C13: when Mem_Alloc(n) selects a free block b of payload p, with r = n
\* rounded to 4: if p - (r + header size) >= header size + 4, b becomes a busy
\* block of payload r followed by one new free block of payload
\* p - r - header size whose successor is the old successor of b, and the
\* list has one block more; otherwise b becomes busy with payload p, keeps
\* its successor, and the list has as many blocks as before.
C13_SplitPolicy ==
  [][\A n \in Requests :
       LET b == FirstFit(list_head, sizeWithHead(n), {})
           p == Payload(mem[b])
           r == sizeBy4(n)
       IN  (Running /\ n > 0 /\ Mem_Alloc(n) /\ b \notin {NULL, HANG, FAULT}) =>
             /\ pc' = "ready"
             /\ last'.ret = b + HeaderSize
             /\ b \in {BlockListNext[i] : i \in 1 .. Len(BlockListNext)}
             /\ IsBusy(mem'[b])
             /\ IF p - (r + HeaderSize) >= HeaderSize + 4
                THEN LET nb == mem'[b].next IN
                     /\ Payload(mem'[b]) = r
                     /\ nb \in DOMAIN mem /\ nb # b
                     /\ IsFree(mem'[nb])
                     /\ Payload(mem'[nb]) = p - r - HeaderSize
                     /\ mem'[nb].next = mem[b].next
                     /\ Len(BlockListNext) = Len(BlockList) + 1
                ELSE /\ Payload(mem'[b]) = p
                     /\ mem'[b].next = mem[b].next
                     /\ Len(BlockListNext) = Len(BlockList)]_vars

\* the place of block b in the list
IndexOf(b) == CHOOSE i \in 1 .. Len(BlockList) : BlockList[i] = b

\* C14: a successful Mem_Free of a block B of the list leaves one free block
\* made of B, of its successor if that was free, and of its predecessor if B
\* was not the head and the predecessor was free: it starts at the
\* predecessor if that was merged and at B otherwise, its payload is the sum
\* of the merged payloads plus one header size per block absorbed, its
\* successor is the successor of the last block merged, and the list is
\* shorter by the number of free neighbours B had.
C14_Coalescing ==
  [][\A ptr \in returned :
       LET B    == ptr - HeaderSize
           S    == mem[B].next
           P    == BlockList[IndexOf(B) - 1]
           fwd  == S # NULL /\ IsFree(mem[S])
           bwd  == B # list_head /\ IsFree(mem[P])
           R    == IF bwd THEN P ELSE B
       IN  (Running /\ B \in BlockSet /\ Mem_Free(ptr)
              /\ pc' = "ready" /\ last'.ret = 0) =>
             /\ IsFree(mem'[R])
             /\ R \in {BlockListNext[i] : i \in 1 .. Len(BlockListNext)}
             /\ Payload(mem'[R]) =
                  Payload(mem[B])
                  + (IF fwd THEN Payload(mem[S]) + HeaderSize ELSE 0)
                  + (IF bwd THEN Payload(mem[P]) + HeaderSize ELSE 0)
             /\ mem'[R].next = IF fwd THEN mem[S].next ELSE S
             /\ Len(BlockListNext) =
                  Len(BlockList) - (IF fwd THEN 1 ELSE 0) - (IF bwd THEN 1 ELSE 0)]_vars

\* the bytes a live allocation is known to have asked for: the argument of
\* the call when it is the last call, one byte at least otherwise
Requested(a) == IF last.op = "alloc" /\ last.ret = a THEN last.arg ELSE 1

\* the byte ranges [a, a + n) and [b, b + m) meet
Overlap(a, n, b, m) == a < b + m /\ b < a + n

\* C15: the bytes [address, address + requested size) of a live allocation
\* meet neither the bytes of another live allocation nor the header bytes of a
\* block of the list.
C15_LiveDisjoint ==
  Running =>
    \A a \in live :
      /\ \A b \in BlockSet : ~Overlap(a, Requested(a), b, HeaderSize)
      /\ \A c \in live \ {a} : ~Overlap(a, Requested(a), c, Requested(c))

\* the blocks of the list after a step, as a set
BlockSetNext == {BlockListNext[i] : i \in 1 .. Len(BlockListNext)}

\* block b, busy before the step, is in the list after it with the same
\* payload size and its flag set
KeptBusy(b) == b \in BlockSetNext /\ mem'[b].size_status = mem[b].size_status

\* C16: a successful Mem_Alloc, and a successful Mem_Free of a block B, leave
\* every busy block of the list (other than B) in the list at its address
\* with its payload size and its flag.
C16_Frame ==
  [][/\ \A n \in Requests :
          (Running /\ Mem_Alloc(n) /\ pc' = "ready" /\ last'.ret # NULL) =>
            \A b \in BlockSet : IsBusy(mem[b]) => KeptBusy(b)
     /\ \A ptr \in returned :
          (Running /\ Mem_Free(ptr) /\ pc' = "ready" /\ last'.ret = 0) =>
            \A b \in BlockSet \ {ptr - HeaderSize} : IsBusy(mem[b]) => KeptBusy(b)]_vars

\* C17: a successful Mem_Free of the address the call of Mem_Alloc just
\* before returned leaves the list as it was before that Mem_Alloc: the same
\* blocks in the same order with the same sizes, flags and links.
C17_RoundTripRestores ==
  [][(Running /\ last.op = "alloc" /\ last.ret # NULL /\ Mem_Free(last.ret)
        /\ pc' = "ready" /\ last'.ret = 0) =>
       SnapshotNext = before]_vars

\* C18: after a successful Mem_Init every block of the list has a payload size
\* that is a positive multiple of 4, and its size_status is odd exactly when
\* the block is allocated, that is when its payload address has been handed
\* out and not freed since.
C18_SizeStatus ==
  Running =>
    \A b \in BlockSet :
      /\ Payload(mem[b]) > 0
      /\ Payload(mem[b]) % 4 = 0
      /\ IsBusy(mem[b]) <=> (b + HeaderSize) \in live

\* C19: after a successful Mem_Init the list is not empty, its head is the
\* block at the Region base, every next link leads to a higher address (so the
\* list has no cycle), and every call has returned.
C19_Ordered ==
  list_head # NULL =>
    /\ pc = "ready"
    /\ list_head = RegionBase
    /\ Len(BlockList) >= 1
    /\ \A b \in BlockSet : mem[b].next # NULL => mem[b].next > b

\* ----------------------------------------------------- specifications
\* the arguments of Mem_Free: null and any address handed out so far
FreeArgs == {NULL} \cup returned

\* A step is a call of one of the four operations; Mem_Alloc is called while
\* it has handed out fewer addresses than the bound.
Next ==
  \/ \E sizeOfRegion \in InitSizes, osOk \in BOOLEAN : Mem_Init(sizeOfRegion, osOk)
  \/ \E size \in AllocSizes : nalloc < MaxAllocs /\ Mem_Alloc(size)
  \/ \E ptr \in FreeArgs : Mem_Free(ptr)
  \/ Mem_Dump

NextWide ==
  \/ \E sizeOfRegion \in WideInitSizes, osOk \in BOOLEAN : Mem_Init(sizeOfRegion, osOk)
  \/ \E size \in WideAllocSizes : nalloc < MaxAllocs /\ Mem_Alloc(size)
  \/ \E ptr \in FreeArgs : Mem_Free(ptr)
  \/ Mem_Dump

NextDeep ==
  \/ \E sizeOfRegion \in DeepInitSizes, osOk \in BOOLEAN : Mem_Init(sizeOfRegion, osOk)
  \/ \E size \in DeepAllocSizes : nalloc < DeepAllocs /\ Mem_Alloc(size)
  \/ \E ptr \in FreeArgs : Mem_Free(ptr)
  \/ Mem_Dump

\* a client that frees only what it holds
NextTrip ==
  \/ \E sizeOfRegion \in TripInitSizes, osOk \in BOOLEAN : Mem_Init(sizeOfRegion, osOk)
  \/ \E size \in TripAllocSizes : nalloc < TripAllocs /\ Mem_Alloc(size)
  \/ \E ptr \in live : Mem_Free(ptr)
  \/ Mem_Dump

\* requests near INT_MAX
NextBig ==
  \/ \E sizeOfRegion \in BigInitSizes, osOk \in BOOLEAN : Mem_Init(sizeOfRegion, osOk)
  \/ \E size \in BigAllocSizes : nalloc < BigAllocs /\ Mem_Alloc(size)
  \/ \E ptr \in FreeArgs : Mem_Free(ptr)
  \/ Mem_Dump

Spec == Init /\ [][Next]_vars
SpecWide == Init /\ [][NextWide]_vars
SpecDeep == Init /\ [][NextDeep]_vars
SpecTrip == Init /\ [][NextTrip]_vars
SpecBig == Init /\ [][NextBig]_vars
====
